---- MODULE Spec2Model ----
(***************************************************************************)
(* One call (session) of the voice bot gateway: the configuration run_bot  *)
(* builds, the greeting mute, the user-turn controller, the STT services'  *)
(* speaking-frame handling, the greeting interruption filter and the       *)
(* transcript sink.                                                        *)
(*                                                                         *)
(* Texts (greeting, transcript chunks) are sequences of one-character      *)
(* strings so that strip() and " ".join() are computed, not assumed.       *)
(*                                                                         *)
(* The turn controller itself (TurnState, PendingTurn, Timeout Guard,      *)
(* Interruption Arbiter) is not under src/: bot.py only configures it      *)
(* (LLMContextAggregatorPair, bot.py:267-275).  Its transitions are        *)
(* modelled from spec.md sections 4.1-4.4 and 5; what bot.py passes to it  *)
(* (strategies, timeout, mute predicate) is modelled from bot.py.          *)
(***************************************************************************)
EXTENDS Integers, Sequences, FiniteSets, TLC

\* ------------------------------------------------------------------ bounds
\* VAD_START signals one call may see.
MaxVadStarts == 2
\* Transcript chunks the REST STT service transcribes in one call.
MaxChunks == 1

\* Ticks of 25 ms the clock of the stopping check runs.
MaxClock == 4

\* User turns and transcription requests of the suspended run_stt.
MaxSttTurns == 2
MaxSttRequests == 3

\* Calls of _process_context and chunks of one streamed answer.
MaxLlmCalls == 3
MaxLlmChunks == 2

\* Messages of one LLMMessagesFrame after the system prompt.
MaxMessages == 2

\* Audio chunks one call's recorder delivers.
MaxCallEvents == 2

\* ------------------------------------------------------- program constants
\* USER_TURN_STOP_TIMEOUT, 1.5 s, in ticks of 0.5 s.
UserTurnStopTimeout == 3

\* BOT_VAD_STOP_SECS of the environment, 0.5 s, in hundredths of a second.
EnvBotVadStopSecs == 50

\* The library's own BOT_VAD_STOP_SECS, 0.35 s, in hundredths of a second.
DefaultBotVadStopSecs == 35

\* _STOPPING_DURATION_MS, 50 ms, in ticks of 25 ms.
StoppingDuration == 2

\* len(self.hold_messages)
HoldMessages == 4

\* Chunks of the response body read by one run_tts call.
MaxTtsChunks == 2

\* range(4): the attempts at fetch_meeting_internal.
FetchAttempts == 4

\* Two calls served by one process.
Calls == {"A", "B"}

\* ------------------------------------------------------------ text helpers
RECURSIVE LStrip(_)
LStrip(s) == IF s # <<>> /\ Head(s) = " " THEN LStrip(Tail(s)) ELSE s

RECURSIVE RStrip(_)
RStrip(s) == IF s # <<>> /\ s[Len(s)] = " " THEN RStrip(SubSeq(s, 1, Len(s) - 1)) ELSE s

\* str.strip()
Strip(s) == RStrip(LStrip(s))

\* " ".join(chunks)
RECURSIVE Join(_)
Join(chunks) ==
    IF chunks = <<>> THEN <<>>
    ELSE IF Len(chunks) = 1 THEN chunks[1]
    ELSE chunks[1] \o <<" ">> \o Join(Tail(chunks))

\* Greetings an agent may be configured with: none, one character padded with
\* a blank, and a real greeting padded with blanks.
Greetings == { <<>>, <<" ", "h">>, <<" ", "h", "i", " ">> }

\* What a transcription request may return: nothing, a blank, a word.
Texts == { <<>>, <<" ">>, <<"a">> }

VARIABLES
    \* agent and environment configuration, fixed for the call
    greeting_message, enable_interruptions, enable_smart_turn, stt_provider,
    \* session
    session, task_running,
    \* bot speech
    bot_queue, bot_speaking, bot_completed,
    \* mute gate (user mute strategy)
    muted,
    \* turn controller
    turnState, pendingTurn, timer_armed, timer_elapsed, decidedBy,
    classifier_inflight, classifier_await, evals,
    \* voice-activity detector
    vad_state, vad_starts,
    \* STT service
    is_speaking, text_chunks, stopping_start_time, stopping_triggered,
    finalize_pending, downstream, transcribed,
    \* GreetingInterruptionFilter
    greeting_in_progress, filter_window_out,
    \* sink
    transcript_lines,
    \* observations
    emitted, decisions, spans_opened, undecided, cancels, window_starts, talkover,
    span_texts, sink_failed,
    \* the process: the library's module global, and per call (bot()) its phase,
    \* its call_data, and what it wrote, was fed and read
    BOT_VAD_STOP_SECS, call_phase, call_data, call_wrote, call_fed, call_read,
    \* _check_stopping_state against a clock: the detector's state, the service's
    \* _stopping_start_time (-1: None) and _stopping_triggered, and for the current
    \* episode of STOPPING its start, its true returns, whether a frame re-armed
    \* the trigger, and how old the episode was at the last true return
    clock, seen_vad_state, seen_start_time, seen_triggered, stopping_since, fired, rearmed, fired_age,
    \* run_stt suspended in its request: the user turns begun, _is_speaking,
    \* _text_chunks (each text names the turn whose audio it was transcribed from),
    \* the turn of the request awaited (0: none), the requests made, and the final
    \* transcripts pushed, each with the turn it was pushed for
    stt_turn, stt_is_speaking, stt_text_chunks, stt_request, stt_requests, stt_finals,
    \* KenpathLLM._process_context: where the call is, the calls made, the hold
    \* task, the rotating index, first_chunk, chunk_count, the hold messages queued
    \* by this call and the chunks handled when the timeout elapsed (-1: it has not)
    llm_pc, llm_calls, hold_message_task, hold_message_index, first_chunk, chunk_count, hold_queued, chunks_at_timeout,
    \* VoiceraMemoryRetrievalService: _last_query, the messages of the last
    \* LLMMessagesFrame, the messages forwarded for it, whether a block was injected
    mem_last_query, mem_messages, mem_forwarded, mem_injected,
    \* websocket_endpoint resolving the caller: where it is, the loop's attempt,
    \* the calls of fetch_meeting_internal and the sleeps made, the meeting, the
    \* user_phone (<<>>: None) and whether bot() has been called
    fetch_pc, attempt, fetch_calls, sleeps, meeting, user_phone, bot_started,
    \* bot() from the end of run_bot: where it is, how run_bot ended, the call_data
    \* it ended with, the user_phone and enable_memory of the call, the
    \* persistence calls made in order and those that raised
    save_pc, run_bot_outcome, final_data, bot_user_phone, enable_memory, save_steps, save_failed,
    \* one BhashiniTTSService.run_tts call: where it is, the frames it has yielded,
    \* its line buffer, the chunks read, and whether a line marked done was read
    tts_pc, tts_frames, tts_buffer, tts_chunks, tts_done_read

cfgVars == <<greeting_message, enable_interruptions, enable_smart_turn, stt_provider>>
sessVars == <<session, task_running>>
botVars == <<bot_queue, bot_speaking, bot_completed>>
ctlVars == <<turnState, pendingTurn, timer_armed, timer_elapsed, decidedBy,
             classifier_inflight, classifier_await, evals>>
vadVars == <<vad_state, vad_starts>>
sttVars == <<is_speaking, text_chunks, stopping_start_time, stopping_triggered,
             finalize_pending, downstream, transcribed>>
fltVars == <<greeting_in_progress, filter_window_out>>
obsVars == <<emitted, decisions, spans_opened, undecided, cancels, window_starts,
             talkover, span_texts, sink_failed>>

callVars == <<BOT_VAD_STOP_SECS, call_phase, call_data, call_wrote, call_fed, call_read>>

stopVars == <<clock, seen_vad_state, seen_start_time, seen_triggered, stopping_since, fired, rearmed, fired_age>>

turnVars == <<stt_turn, stt_is_speaking, stt_text_chunks, stt_request, stt_requests, stt_finals>>

holdVars == <<llm_pc, llm_calls, hold_message_task, hold_message_index, first_chunk, chunk_count, hold_queued, chunks_at_timeout>>

memVars == <<mem_last_query, mem_messages, mem_forwarded, mem_injected>>

fetchVars == <<fetch_pc, attempt, fetch_calls, sleeps, meeting, user_phone, bot_started>>

saveVars == <<save_pc, run_bot_outcome, final_data, bot_user_phone, enable_memory, save_steps, save_failed>>

ttsVars == <<tts_pc, tts_frames, tts_buffer, tts_chunks, tts_done_read>>

auxVars == <<callVars, stopVars, turnVars, holdVars, memVars, fetchVars, saveVars, ttsVars>>

vars == <<cfgVars, sessVars, botVars, muted, ctlVars, vadVars, sttVars, fltVars,
          transcript_lines, obsVars, auxVars>>

\* ------------------------------------------------- run_bot's configuration
\* Fault variants of the configuration, used to test the properties below.
\* The threshold one too high: a two-character greeting installs no mute.
MuteThresholdHigh(greeting) == Len(Strip(greeting)) > 2

\* The threshold one too low: any non-blank greeting installs the mute.
MuteIfNonEmpty(greeting) == Len(Strip(greeting)) > 0

\* The agent's flag is not passed on; the strategy keeps interrupting.
StartStrategyDefault(flag) == TRUE

\* The strategy is built with interruptions off, whatever the flag.
StartStrategyNever(flag) == FALSE

\* A shorter timeout than the configured one reaches the aggregator.
StopTimeoutShort == UserTurnStopTimeout - 1

\* Fault variant: any non-blank greeting is queued on connect.
GreetingQueuedIfNonEmpty(greeting) == Len(Strip(greeting)) > 0

\* user_mute_strategies holds MuteUntilFirstBotCompleteUserMuteStrategy.
MuteStrategyInstalled(greeting) == Len(Strip(greeting)) > 1

\* on_client_connected queues TTSSpeakFrame(greeting).
GreetingQueued(greeting) == Len(Strip(greeting)) > 1

\* VADUserTurnStartStrategy(enable_interruptions=enable_interruptions)
StartStrategyInterrupts(flag) == flag

\* stop_strategies: the Smart Turn analyzer, or None (the default strategy).
StopStrategies(smart) == IF smart THEN "TurnAnalyzerUserTurnStopStrategy" ELSE "None"

\* LLMUserAggregatorParams(user_turn_stop_timeout=user_turn_stop_timeout)
ConfiguredStopTimeout == UserTurnStopTimeout

\* ------------------------------------------------ GreetingInterruptionFilter
BlockedKinds == {"StartInterruptionFrame", "InterruptionFrame", "UserStartedSpeakingFrame"}

\* Fault variant: every BotStoppedSpeakingFrame flips the flag.
FilterFlagToggle(in_progress, kind) ==
    IF kind = "BotStoppedSpeakingFrame" THEN ~in_progress ELSE in_progress

\* Fault variant: the early return is missing, every frame is pushed.
FilterPushesAll(in_progress, kind) == TRUE

\* start_greeting(): the value it gives _greeting_in_progress.
start_greeting == TRUE

\* process_frame, first if: the flag after the frame.
FilterFlag(in_progress, kind) ==
    IF kind = "BotStoppedSpeakingFrame" /\ in_progress THEN FALSE ELSE in_progress

\* Fault variant: only the user-started-speaking frame is held back.
FilterPushesInterruptions(in_progress, kind) ==
    ~(FilterFlag(in_progress, kind) /\ kind = "UserStartedSpeakingFrame")

\* process_frame, second if: whether the frame reaches push_frame.
FilterPushes(in_progress, kind) ==
    ~(FilterFlag(in_progress, kind) /\ kind \in BlockedKinds)

\* The filter applied to the frames of one signal, in order.
RECURSIVE FilterRun(_, _)
FilterRun(in_progress, kinds) ==
    IF kinds = <<>> THEN [in_progress |-> in_progress, pushed |-> {}]
    ELSE LET k == Head(kinds)
             r == FilterRun(FilterFlag(in_progress, k), Tail(kinds))
         IN [in_progress |-> r.in_progress,
             pushed |-> IF FilterPushes(in_progress, k) THEN r.pushed \cup {k} ELSE r.pushed]

\* ---------------------------------------------------------------- the sink
\* Fault variant: the line is written as the assistant's handler writes it.
SinkRoleAssistant(lines, content, timestamp) ==
    IF Strip(content) # <<>>
    THEN Append(lines, [role |-> "assistant", content |-> content, timestamp |-> timestamp])
    ELSE lines

\* Fault variant: the text is tested without being stripped.
SinkKeepsBlank(lines, content, timestamp) ==
    IF content # <<>>
    THEN Append(lines, [role |-> "user", content |-> content, timestamp |-> timestamp])
    ELSE lines

\* Fault variant: the line is appended twice.
SinkAppendsTwice(lines, content, timestamp) ==
    IF Strip(content) # <<>>
    THEN lines \o << [role |-> "user", content |-> content, timestamp |-> timestamp],
                     [role |-> "user", content |-> content, timestamp |-> timestamp] >>
    ELSE lines

\* on_user_turn_stopped: one transcript line per turn with text.
on_user_turn_stopped(lines, content, timestamp) ==
    IF Strip(content) # <<>>
    THEN Append(lines, [role |-> "user", content |-> content, timestamp |-> timestamp])
    ELSE lines

\* -------------------------------------------------------------- STT service
\* Fault variant: the stop frame is forwarded before the final transcript.
IndicStoppedOutSwapped(chunks) ==
    IF chunks # <<>>
    THEN <<[kind |-> "UserStoppedSpeakingFrame", text |-> <<>>],
           [kind |-> "TranscriptionFrame", text |-> Join(chunks)]>>
    ELSE <<[kind |-> "UserStoppedSpeakingFrame", text |-> <<>>]>>

\* Fault variant: a final transcript is pushed also when no chunk was heard.
IndicStoppedOutAlwaysFinal(chunks) ==
    <<[kind |-> "TranscriptionFrame", text |-> Join(chunks)],
      [kind |-> "UserStoppedSpeakingFrame", text |-> <<>>]>>

\* Fault variant: the chunks are cleared without being pushed.
IndicStoppedOutNoFinal(chunks) == <<[kind |-> "UserStoppedSpeakingFrame", text |-> <<>>]>>

\* IndicConformerRESTSTTService.process_frame on UserStoppedSpeakingFrame:
\* the frames pushed downstream, in order.
IndicStoppedOut(chunks) ==
    IF chunks # <<>>
    THEN <<[kind |-> "TranscriptionFrame", text |-> Join(chunks)],
           [kind |-> "UserStoppedSpeakingFrame", text |-> <<>>]>>
    ELSE <<[kind |-> "UserStoppedSpeakingFrame", text |-> <<>>]>>

\* BhashiniSTTService.process_frame on UserStoppedSpeakingFrame: the frame is
\* forwarded first, the finalize request follows.
BhashiniStoppedOut == <<[kind |-> "UserStoppedSpeakingFrame", text |-> <<>>]>>

SttStoppedOut(provider, chunks) ==
    IF provider = "ai4bharat" THEN IndicStoppedOut(chunks) ELSE BhashiniStoppedOut

Kinds(frames) == [i \in 1..Len(frames) |-> frames[i].kind]

\* The texts of the TranscriptionFrames among frames, in order.
RECURSIVE FinalTexts(_)
FinalTexts(frames) ==
    IF frames = <<>> THEN <<>>
    ELSE IF Head(frames).kind = "TranscriptionFrame"
         THEN <<Head(frames).text>> \o FinalTexts(Tail(frames))
         ELSE FinalTexts(Tail(frames))

\* Fault variant: _stopping_triggered is not consulted.
CheckStoppingStateRepeats(vad, start_time, triggered, elapsed) ==
    IF vad = "STOPPING"
    THEN IF ~start_time
         THEN [ret |-> FALSE, start_time |-> TRUE, triggered |-> triggered]
         ELSE IF elapsed
              THEN [ret |-> TRUE, start_time |-> TRUE, triggered |-> TRUE]
              ELSE [ret |-> FALSE, start_time |-> TRUE, triggered |-> triggered]
    ELSE [ret |-> FALSE, start_time |-> FALSE, triggered |-> FALSE]

\* _check_stopping_state: [ret, start_time, triggered] for one audio frame;
\* elapsed says whether 50 ms have passed since _stopping_start_time.
CheckStoppingState(vad, start_time, triggered, elapsed) ==
    IF vad = "STOPPING"
    THEN IF ~start_time
         THEN [ret |-> FALSE, start_time |-> TRUE, triggered |-> triggered]
         ELSE IF elapsed /\ ~triggered
              THEN [ret |-> TRUE, start_time |-> TRUE, triggered |-> TRUE]
              ELSE [ret |-> FALSE, start_time |-> TRUE, triggered |-> triggered]
    ELSE [ret |-> FALSE, start_time |-> FALSE, triggered |-> FALSE]

\* ---------------------------------------------------------- turn controller
NoTurn == [open |-> FALSE, fragments |-> <<>>, ts |-> 0]

\* Fault variant: a final transcript opens a turn when none is open.
AcceptFinalsOpens(pt, gate, texts) ==
    IF gate THEN pt ELSE [pt EXCEPT !.open = TRUE, !.fragments = @ \o texts]

\* A final transcript reaching the controller.
AcceptFinals(pt, gate, texts) ==
    IF gate \/ ~pt.open THEN pt ELSE [pt EXCEPT !.fragments = @ \o texts]

\* BhashiniSTTService._handle_response for a final result: the frames pushed.
BhashiniFinalOut(text) ==
    IF Strip(text) = <<>> THEN <<>>
    ELSE <<[kind |-> "TranscriptionFrame", text |-> text]>>

\* Fault variant: an exception of the handler reaches the controller.
HandlerErrorPropagates == FALSE

\* Whether an exception raised by an event handler is caught and logged by the
\* event dispatch, so that the caller of the handler goes on.
HandlerErrorSwallowed == TRUE

\* Fault variant: the handler only logs, the task is left running.
TaskNotCancelled == FALSE

\* on_client_disconnected: whether the pipeline task is cancelled.
on_client_disconnected == TRUE

\* ------------------------------------------------------ websocket_endpoint
\* fetch_meeting_internal returned None or an empty object.
NoMeeting == [found |-> FALSE, inbound |-> "None", from_number |-> <<>>, to_number |-> <<>>]

\* Numbers a meeting may hold.
Phones ==
    { <<"0", "1", "2">>, <<" ", "+", "9", "1", "7">>, <<"9", "1", " ", "7">>,
      <<"7", "0", "0", "0", "0", "0", "0", "0", "0", "1">> }

\* What fetch_meeting_internal may return.
Meetings ==
    {NoMeeting} \cup
    [found : {TRUE}, inbound : {"True", "False", "None"},
     from_number : Phones, to_number : {<<"5", "5">>, <<"0", "9">>}]

\* Fault variant: the loop sleeps after every failed attempt.
SleepsAfterEvery(n) == TRUE

\* 'if attempt < 3': whether the loop sleeps after a failed attempt.
SleepsAfter(n) == n < 3

\* user_phone as taken from the meeting.
MeetingPhone(m) ==
    IF ~m.found THEN <<>>
    ELSE IF m.inbound = "True" THEN m.from_number
    ELSE IF m.inbound = "False" THEN m.to_number
    ELSE <<>>

\* The normalisation of user_phone.
NormalizePhone(phone) ==
    LET p == SelectSeq(Strip(phone), LAMBDA ch : ch # " ")
    IN IF phone = <<>> THEN phone
       ELSE IF p # <<>> /\ p[1] = "0" THEN <<"+", "9", "1">> \o Tail(p)
       ELSE IF (p = <<>> \/ p[1] # "+") /\ Len(p) = 10 THEN <<"+", "9", "1">> \o p
       ELSE IF (p = <<>> \/ p[1] # "+") /\ Len(p) >= 2 /\ SubSeq(p, 1, 2) = <<"9", "1">>
            THEN <<"+">> \o p
       ELSE p

\* ------------------------------------------------------------------- bot()
\* Fault variant: the value comes from the call, not from the environment.
BotVadStopSecsPerCall(call) == IF call = "A" THEN EnvBotVadStopSecs ELSE DefaultBotVadStopSecs

\* bot_vad_stop_secs = float(os.getenv("BOT_VAD_STOP_SECS", "0.5"))
BotVadStopSecs(call) == EnvBotVadStopSecs

\* call_data is a local of bot(): the call whose dict a handler of call writes.
CallDataOf(call) == call

\* call_data as bot() creates it.
NewCallData == [audio_chunks |-> <<>>, audio_sample_rate |-> "None",
                audio_num_channels |-> "None", transcript_lines |-> <<>>]

\* on_audio_data: the call_data after one chunk.
on_audio_data(data, audio, sample_rate, num_channels) ==
    [data EXCEPT !.audio_chunks = Append(@, audio),
                 !.audio_sample_rate = IF @ = "None" THEN sample_rate ELSE @,
                 !.audio_num_channels = IF data.audio_sample_rate = "None"
                                        THEN num_channels ELSE @]

\* The harness's account of the greeting: queued and not yet played out.
GreetingWindow == GreetingQueued(greeting_message) /\ ~bot_completed

Init ==
    /\ greeting_message \in Greetings
    /\ enable_interruptions \in BOOLEAN
    /\ enable_smart_turn \in BOOLEAN
    /\ stt_provider \in {"ai4bharat", "Bhashini"}
    /\ session = "init"
    /\ task_running = TRUE
    /\ bot_queue = 0
    /\ bot_speaking = FALSE
    /\ bot_completed = FALSE
    /\ muted = MuteStrategyInstalled(greeting_message)
    /\ turnState = IF MuteStrategyInstalled(greeting_message) THEN "MUTED" ELSE "IDLE"
    /\ pendingTurn = NoTurn
    /\ timer_armed = FALSE
    /\ timer_elapsed = 0
    /\ decidedBy = "none"
    /\ classifier_inflight = {}
    /\ classifier_await = 0
    /\ evals = 0
    /\ vad_state = "QUIET"
    /\ vad_starts = 0
    /\ is_speaking = FALSE
    /\ text_chunks = <<>>
    /\ stopping_start_time = FALSE
    /\ stopping_triggered = FALSE
    /\ finalize_pending = FALSE
    /\ downstream = <<>>
    /\ transcribed = 0
    /\ greeting_in_progress = FALSE
    /\ filter_window_out = {}
    /\ transcript_lines = <<>>
    /\ emitted = 0
    /\ decisions = 0
    /\ spans_opened = 0
    /\ undecided = FALSE
    /\ cancels = {}
    /\ window_starts = {}
    /\ talkover = FALSE
    /\ span_texts = <<>>
    /\ sink_failed = 0
    /\ BOT_VAD_STOP_SECS = DefaultBotVadStopSecs
    /\ call_phase = [c \in Calls |-> "new"]
    /\ call_data = [c \in Calls |-> NewCallData]
    /\ call_wrote = [c \in Calls |-> 0]
    /\ call_fed = [c \in Calls |-> 0]
    /\ call_read = [c \in Calls |-> {}]
    /\ clock = 0
    /\ seen_vad_state = "QUIET"
    /\ seen_start_time = -1
    /\ seen_triggered = FALSE
    /\ stopping_since = -1
    /\ fired = 0
    /\ rearmed = FALSE
    /\ fired_age = -1
    /\ stt_turn = 0
    /\ stt_is_speaking = FALSE
    /\ stt_text_chunks = <<>>
    /\ stt_request = 0
    /\ stt_requests = 0
    /\ stt_finals = <<>>
    /\ llm_pc = "idle"
    /\ llm_calls = 0
    /\ hold_message_task = "none"
    /\ hold_message_index = 0
    /\ first_chunk = TRUE
    /\ chunk_count = 0
    /\ hold_queued = 0
    /\ chunks_at_timeout = -1
    /\ mem_last_query = <<>>
    /\ mem_messages = <<>>
    /\ mem_forwarded = <<>>
    /\ mem_injected = FALSE
    /\ fetch_pc = "fetch"
    /\ attempt = 0
    /\ fetch_calls = 0
    /\ sleeps = 0
    /\ meeting = NoMeeting
    /\ user_phone = <<>>
    /\ bot_started = FALSE
    /\ save_pc = "run_bot"
    /\ run_bot_outcome = "running"
    /\ final_data = NewCallData
    /\ bot_user_phone = <<>>
    /\ enable_memory = [kind |-> "absent", value |-> ""]
    /\ save_steps = <<>>
    /\ save_failed = {}
    /\ tts_pc = "idle"
    /\ tts_frames = <<>>
    /\ tts_buffer = <<>>
    /\ tts_chunks = 0
    /\ tts_done_read = FALSE

\* ------------------------------------------------------------------ actions
\* Frames of one signal through the GreetingInterruptionFilter.
FilterStep(kinds) ==
    LET f == FilterRun(greeting_in_progress, kinds)
    IN /\ greeting_in_progress' = f.in_progress
       /\ filter_window_out' = IF GreetingWindow THEN filter_window_out \cup f.pushed
                               ELSE filter_window_out

\* on_client_connected
ClientConnected ==
    /\ session = "init"
    /\ session' = "connected"
    /\ bot_queue' = IF GreetingQueued(greeting_message) THEN 1 ELSE bot_queue
    /\ greeting_in_progress' = IF GreetingQueued(greeting_message) THEN start_greeting
                               ELSE greeting_in_progress
    /\ UNCHANGED <<auxVars, cfgVars, task_running, bot_speaking, bot_completed, muted, ctlVars,
                   vadVars, sttVars, filter_window_out, transcript_lines, obsVars>>

\* Fault variant: signals are taken while a decided turn is being flushed.
AcceptsDuringFlush == session = "connected" /\ task_running

\* The signals of one session are handled one at a time: none is taken while
\* a decided turn is being flushed.
Accepting == session = "connected" /\ task_running /\ turnState # "USER_TURN_COMPLETE"

\* BOT_SPEECH_START
BotSpeechStart ==
    /\ Accepting
    /\ bot_queue > 0 /\ ~bot_speaking
    /\ bot_speaking' = TRUE
    /\ bot_queue' = 0
    /\ UNCHANGED <<auxVars, cfgVars, sessVars, bot_completed, muted, ctlVars, vadVars, sttVars,
                   fltVars, transcript_lines, obsVars>>

\* BOT_SPEECH_STOP: the mute gate opens on the first one.
BotSpeechStop ==
    /\ Accepting
    /\ bot_speaking
    /\ bot_speaking' = FALSE
    /\ bot_completed' = TRUE
    /\ muted' = FALSE
    /\ turnState' = IF turnState = "MUTED" THEN "IDLE" ELSE turnState
    /\ pendingTurn' = IF muted THEN NoTurn ELSE pendingTurn
    /\ FilterStep(<<"BotStoppedSpeakingFrame">>)
    /\ UNCHANGED <<auxVars, cfgVars, sessVars, bot_queue, timer_armed, timer_elapsed, decidedBy,
                   classifier_inflight, classifier_await, evals, vadVars, sttVars,
                   transcript_lines, obsVars>>

\* Interruption Arbiter: whether this VAD_START cancels the bot's speech.
InterruptionAllowed ==
    StartStrategyInterrupts(enable_interruptions) /\ ~muted /\ bot_speaking

\* VAD_START: UserStartedSpeakingFrame through the STT service, the filter,
\* the mute gate and the controller.
VadStart ==
    /\ Accepting
    /\ vad_state = "QUIET" /\ vad_starts < MaxVadStarts
    /\ vad_state' = "SPEAKING"
    /\ vad_starts' = vad_starts + 1
    /\ is_speaking' = TRUE
    /\ text_chunks' = <<>>
    /\ stopping_start_time' = IF stt_provider = "ai4bharat" THEN FALSE ELSE stopping_start_time
    /\ stopping_triggered' = IF stt_provider = "ai4bharat" THEN FALSE ELSE stopping_triggered
    /\ downstream' = <<>>
    /\ FilterStep(IF StartStrategyInterrupts(enable_interruptions) /\ bot_speaking
                  THEN <<"UserStartedSpeakingFrame", "InterruptionFrame">>
                  ELSE <<"UserStartedSpeakingFrame">>)
    /\ window_starts' = IF GreetingWindow THEN window_starts \cup {vad_starts + 1}
                        ELSE window_starts
    /\ cancels' = IF InterruptionAllowed THEN cancels \cup {vad_starts + 1} ELSE cancels
    /\ talkover' = IF muted THEN (talkover \/ bot_speaking)
                   ELSE IF turnState = "IDLE" THEN bot_speaking ELSE talkover
    /\ span_texts' = IF ~muted /\ turnState = "IDLE" THEN <<>> ELSE span_texts
    /\ bot_speaking' = (bot_speaking /\ ~InterruptionAllowed)
    /\ IF muted
       THEN UNCHANGED <<turnState, pendingTurn, timer_armed, timer_elapsed,
                        classifier_await, spans_opened, decisions>>
       ELSE IF turnState = "IDLE"
       THEN /\ turnState' = "USER_SPEAKING"
            /\ pendingTurn' = [open |-> TRUE, fragments |-> <<>>, ts |-> vad_starts + 1]
            /\ spans_opened' = spans_opened + 1
            /\ decisions' = 0
            /\ UNCHANGED <<timer_armed, timer_elapsed, classifier_await>>
       ELSE /\ turnState' = "USER_SPEAKING"
            /\ timer_armed' = FALSE
            /\ timer_elapsed' = 0
            /\ classifier_await' = 0
            /\ UNCHANGED <<pendingTurn, spans_opened, decisions>>
    /\ classifier_inflight' = IF ~muted /\ turnState = "EVALUATING_END"
                              THEN classifier_inflight \ {classifier_await}
                              ELSE classifier_inflight
    /\ UNCHANGED <<auxVars, cfgVars, sessVars, bot_queue, bot_completed, muted, decidedBy,
                   evals, finalize_pending, transcribed,
                   transcript_lines, emitted, undecided, sink_failed>>

\* The detector hears silence begin: SPEAKING -> STOPPING.
VadPause ==
    /\ Accepting
    /\ vad_state = "SPEAKING"
    /\ vad_state' = "STOPPING"
    /\ UNCHANGED <<auxVars, cfgVars, sessVars, botVars, muted, ctlVars, vad_starts, sttVars,
                   fltVars, transcript_lines, obsVars>>

\* Speech resumes before stop_secs: STOPPING -> SPEAKING, no frame.
VadResume ==
    /\ Accepting
    /\ vad_state = "STOPPING"
    /\ vad_state' = "SPEAKING"
    /\ UNCHANGED <<auxVars, cfgVars, sessVars, botVars, muted, ctlVars, vad_starts, sttVars,
                   fltVars, transcript_lines, obsVars>>

\* VAD_STOP: UserStoppedSpeakingFrame through the STT service (which pushes
\* its frames downstream in order), the filter, the gate and the controller.
VadStop ==
    /\ Accepting
    /\ vad_state = "STOPPING"
    /\ vad_state' = "QUIET"
    /\ \E ready \in BOOLEAN :
         LET out == SttStoppedOut(stt_provider, text_chunks)
             entered == ~muted /\ turnState = "USER_SPEAKING"
         IN /\ is_speaking' = FALSE
            /\ text_chunks' = <<>>
            /\ stopping_start_time' = IF stt_provider = "ai4bharat" THEN FALSE
                                      ELSE stopping_start_time
            /\ stopping_triggered' = IF stt_provider = "ai4bharat" THEN FALSE
                                     ELSE stopping_triggered
            /\ finalize_pending' = IF stt_provider = "Bhashini" /\ ready THEN TRUE
                                   ELSE finalize_pending
            /\ downstream' = downstream \o Kinds(out)
            /\ FilterStep(Kinds(out))
            /\ pendingTurn' = AcceptFinals(pendingTurn, muted, FinalTexts(out))
            /\ turnState' = IF entered THEN "EVALUATING_END" ELSE turnState
            /\ timer_armed' = IF entered THEN TRUE ELSE timer_armed
            /\ timer_elapsed' = IF entered THEN 0 ELSE timer_elapsed
            /\ evals' = IF entered THEN evals + 1 ELSE evals
            /\ undecided' = (undecided \/ entered)
            /\ IF entered /\ StopStrategies(enable_smart_turn) # "None"
               THEN /\ classifier_inflight' = classifier_inflight \cup {evals + 1}
                    /\ classifier_await' = evals + 1
               ELSE UNCHANGED <<classifier_inflight, classifier_await>>
    /\ UNCHANGED <<auxVars, cfgVars, sessVars, botVars, muted, decidedBy, vad_starts,
                   transcribed, transcript_lines, emitted, decisions, spans_opened, cancels,
                   window_starts, talkover, span_texts, sink_failed>>

\* IndicConformerRESTSTTService.run_stt for one audio frame.
AudioFrame ==
    /\ Accepting
    /\ stt_provider = "ai4bharat"
    /\ \E elapsed \in BOOLEAN, text \in Texts :
         LET c == CheckStoppingState(vad_state, stopping_start_time,
                                     stopping_triggered, elapsed)
             grows == c.ret /\ text # <<>>
         IN /\ grows => transcribed < MaxChunks
            /\ transcribed' = IF grows THEN transcribed + 1 ELSE transcribed
            /\ stopping_start_time' = c.start_time
            /\ stopping_triggered' = c.triggered
            /\ text_chunks' = IF grows THEN Append(text_chunks, text) ELSE text_chunks
            /\ span_texts' = IF grows /\ pendingTurn.open THEN Append(span_texts, text)
                             ELSE span_texts
    /\ UNCHANGED <<auxVars, cfgVars, sessVars, botVars, muted, ctlVars, vadVars, is_speaking,
                   finalize_pending, downstream, fltVars, transcript_lines, emitted,
                   decisions, spans_opened, undecided, cancels, window_starts, talkover,
                   sink_failed>>

\* BhashiniSTTService._handle_response for the final result the finalize
\* request asked for.
BhashiniResponse ==
    /\ Accepting
    /\ stt_provider = "Bhashini"
    /\ finalize_pending
    /\ \E text \in Texts :
         LET out == BhashiniFinalOut(text)
         IN /\ downstream' = downstream \o Kinds(out)
            /\ FilterStep(Kinds(out))
            /\ pendingTurn' = AcceptFinals(pendingTurn, muted, FinalTexts(out))
    /\ finalize_pending' = FALSE
    /\ UNCHANGED <<auxVars, cfgVars, sessVars, botVars, muted, turnState, timer_armed,
                   timer_elapsed, decidedBy, classifier_inflight, classifier_await,
                   evals, vadVars, is_speaking, text_chunks, stopping_start_time,
                   stopping_triggered, transcribed, transcript_lines, obsVars>>

\* Fault variant: the decision leaves the timer armed.
DecideKeepsTimer(cause) ==
    /\ turnState' = "USER_TURN_COMPLETE"
    /\ decidedBy' = cause
    /\ timer_armed' = timer_armed
    /\ emitted' = emitted + 1
    /\ decisions' = decisions + 1
    /\ undecided' = FALSE

\* EVALUATING_END -> USER_TURN_COMPLETE: the one decision of the turn.
Decide(cause) ==
    /\ turnState' = "USER_TURN_COMPLETE"
    /\ decidedBy' = cause
    /\ timer_armed' = FALSE
    /\ emitted' = emitted + 1
    /\ decisions' = decisions + 1
    /\ undecided' = FALSE

\* Fault variant: any result counts while an evaluation is open.
ClassifierAnyResult(id) == turnState = "EVALUATING_END"

\* Fault variant: no staleness check at all.
ClassifierAlways(id) == TRUE

\* Whether a classifier result is the one the controller waits for
\* (classifier_await: the last evaluation whose result has not been consumed).
ClassifierFresh(id) == turnState = "EVALUATING_END" /\ classifier_await = id

\* A result of an evaluation that is over: its turn was decided, or a later
\* evaluation began.
StaleId(id) == turnState # "EVALUATING_END" \/ id < evals

\* CLASSIFIER_SCORE: the result of an earlier invocation arrives.
ClassifierResult ==
    /\ Accepting
    /\ \E id \in classifier_inflight, verdict \in {"COMPLETE", "INCOMPLETE"} :
         /\ classifier_inflight' = classifier_inflight \ {id}
         /\ IF ClassifierFresh(id) /\ verdict = "COMPLETE"
            THEN /\ Decide("classifier")
                 /\ classifier_await' = 0
                 /\ UNCHANGED <<pendingTurn, timer_elapsed, evals>>
            ELSE IF ClassifierFresh(id)
            THEN /\ classifier_await' = 0
                 /\ UNCHANGED <<turnState, pendingTurn, timer_armed, timer_elapsed,
                                decidedBy, evals, emitted, decisions, undecided>>
            ELSE UNCHANGED <<turnState, pendingTurn, timer_armed, timer_elapsed,
                             decidedBy, classifier_await, evals, emitted, decisions,
                             undecided>>
    /\ UNCHANGED <<auxVars, cfgVars, sessVars, botVars, muted, vadVars, sttVars, fltVars,
                   transcript_lines, spans_opened, cancels, window_starts, talkover,
                   span_texts, sink_failed>>

\* The classifier is disabled and the configured silence has lasted.
SilenceElapsed ==
    /\ Accepting
    /\ turnState = "EVALUATING_END"
    /\ StopStrategies(enable_smart_turn) = "None"
    /\ Decide("silence")
    /\ UNCHANGED <<auxVars, cfgVars, sessVars, botVars, muted, pendingTurn, timer_elapsed,
                   classifier_inflight, classifier_await, evals, vadVars, sttVars, fltVars,
                   transcript_lines, spans_opened, cancels, window_starts, talkover,
                   span_texts, sink_failed>>

\* Half a second passes on the armed Timeout Guard.
Tick ==
    /\ task_running
    /\ timer_armed
    /\ timer_elapsed < ConfiguredStopTimeout
    /\ timer_elapsed' = timer_elapsed + 1
    /\ UNCHANGED <<auxVars, cfgVars, sessVars, botVars, muted, turnState, pendingTurn,
                   timer_armed, decidedBy, classifier_inflight, classifier_await, evals,
                   vadVars, sttVars, fltVars, transcript_lines, obsVars>>

\* The Timeout Guard fires.
TimeoutFire ==
    /\ task_running
    /\ timer_armed
    /\ timer_elapsed >= ConfiguredStopTimeout
    /\ turnState = "EVALUATING_END"
    /\ Decide("timeout")
    /\ UNCHANGED <<auxVars, cfgVars, sessVars, botVars, muted, pendingTurn, timer_elapsed,
                   classifier_inflight, classifier_await, evals, vadVars, sttVars, fltVars,
                   transcript_lines, spans_opened, cancels, window_starts, talkover,
                   span_texts, sink_failed>>

\* USER_TURN_COMPLETE -> IDLE: the PendingTurn is flushed to the sink and the
\* turn goes on to the LLM, whose answer the bot will speak.  The handler may
\* raise while it records a turn with text (sink_failed: the turn it lost).
Flush ==
    /\ task_running
    /\ turnState = "USER_TURN_COMPLETE"
    /\ \E raises \in BOOLEAN :
         LET content == Join(pendingTurn.fragments)
             thrown == raises /\ Strip(content) # <<>>
         IN /\ transcript_lines' = IF thrown THEN transcript_lines
                                   ELSE on_user_turn_stopped(transcript_lines, content,
                                                             pendingTurn.ts)
            /\ sink_failed' = IF thrown THEN pendingTurn.ts ELSE sink_failed
            /\ IF thrown /\ ~HandlerErrorSwallowed
               THEN /\ task_running' = FALSE
                    /\ UNCHANGED <<bot_queue, pendingTurn, turnState, decidedBy,
                                   timer_elapsed, span_texts, talkover>>
               ELSE /\ bot_queue' = IF Strip(content) # <<>> THEN 1 ELSE bot_queue
                    /\ pendingTurn' = NoTurn
                    /\ turnState' = "IDLE"
                    /\ decidedBy' = "none"
                    /\ timer_elapsed' = 0
                    /\ span_texts' = <<>>
                    /\ talkover' = FALSE
                    /\ UNCHANGED task_running
    /\ UNCHANGED <<auxVars, cfgVars, session, bot_speaking, bot_completed, muted, timer_armed,
                   classifier_inflight, classifier_await, evals, vadVars, sttVars,
                   fltVars, emitted, decisions, spans_opened, undecided, cancels,
                   window_starts>>

\* on_client_disconnected: task.cancel() ends the pipeline; pending timers,
\* waits and requests are cancelled, the bot's output and the audio input stop,
\* the Bhashini socket is disconnected and the PendingTurn is discarded.
ClientDisconnected ==
    /\ session = "connected"
    /\ session' = "closed"
    /\ IF on_client_disconnected
       THEN /\ task_running' = FALSE
            /\ turnState' = IF muted THEN "MUTED" ELSE "IDLE"
            /\ pendingTurn' = NoTurn
            /\ timer_armed' = FALSE
            /\ timer_elapsed' = 0
            /\ decidedBy' = "none"
            /\ classifier_await' = 0
            /\ classifier_inflight' = {}
            /\ bot_queue' = 0
            /\ bot_speaking' = FALSE
            /\ vad_state' = "QUIET"
            /\ finalize_pending' = FALSE
            /\ talkover' = FALSE
            /\ span_texts' = <<>>
       ELSE UNCHANGED <<task_running, turnState, pendingTurn, timer_armed,
                        timer_elapsed, decidedBy, classifier_await, classifier_inflight,
                        bot_queue, bot_speaking, vad_state, finalize_pending, talkover,
                        span_texts>>
    /\ UNCHANGED <<auxVars, cfgVars, bot_completed, muted, evals, vad_starts, is_speaking,
                   text_chunks, stopping_start_time, stopping_triggered, downstream,
                   transcribed, fltVars, transcript_lines, emitted, decisions,
                   spans_opened, undecided, cancels, window_starts, sink_failed>>

Next ==
    \/ ClientConnected
    \/ BotSpeechStart
    \/ BotSpeechStop
    \/ VadStart
    \/ VadPause
    \/ VadResume
    \/ VadStop
    \/ AudioFrame
    \/ BhashiniResponse
    \/ ClassifierResult
    \/ SilenceElapsed
    \/ Tick
    \/ TimeoutFire
    \/ Flush
    \/ ClientDisconnected

Spec == Init /\ [][Next]_vars

\* The timer and the flush are the controller's own steps: asyncio runs them
\* once they are due.
FairSpec == Spec /\ WF_vars(Tick) /\ WF_vars(TimeoutFire) /\ WF_vars(Flush)

\* ------------------------------------------------- two calls in one process
mainVars == <<cfgVars, sessVars, botVars, muted, ctlVars, vadVars, sttVars, fltVars,
              transcript_lines, obsVars>>

\* What the steps of each of the smaller specifications leave alone.
notCalls == <<mainVars, stopVars, turnVars, holdVars, memVars, fetchVars, saveVars, ttsVars>>
notStop == <<mainVars, callVars, turnVars, holdVars, memVars, fetchVars, saveVars, ttsVars>>
notTurn == <<mainVars, callVars, stopVars, holdVars, memVars, fetchVars, saveVars, ttsVars>>
notHold == <<mainVars, callVars, stopVars, turnVars, memVars, fetchVars, saveVars, ttsVars>>
notMem == <<mainVars, callVars, stopVars, turnVars, holdVars, fetchVars, saveVars, ttsVars>>
notFetch == <<mainVars, callVars, stopVars, turnVars, holdVars, memVars, saveVars, ttsVars>>
notSave == <<mainVars, callVars, stopVars, turnVars, holdVars, memVars, fetchVars, ttsVars>>
notTts == <<mainVars, callVars, stopVars, turnVars, holdVars, memVars, fetchVars, saveVars>>

\* bot() up to the pipeline's start: the module global is overwritten, the
\* call's call_data is created.
BotSetup(c) ==
    /\ call_phase[c] = "new"
    /\ call_phase' = [call_phase EXCEPT ![c] = "running"]
    /\ BOT_VAD_STOP_SECS' = BotVadStopSecs(c)
    /\ call_wrote' = [call_wrote EXCEPT ![c] = BotVadStopSecs(c)]
    /\ call_data' = [call_data EXCEPT ![CallDataOf(c)] = NewCallData]
    /\ UNCHANGED <<notCalls, call_fed, call_read>>

\* The call's AudioBufferProcessor delivers a chunk to on_audio_data.
OnAudioData(c) ==
    /\ call_phase[c] = "running"
    /\ call_fed[c] < MaxCallEvents
    /\ call_fed' = [call_fed EXCEPT ![c] = @ + 1]
    /\ call_data' = [call_data EXCEPT ![CallDataOf(c)] =
                         on_audio_data(@, <<c, call_fed[c] + 1>>, "8000", "1")]
    /\ UNCHANGED <<notCalls, BOT_VAD_STOP_SECS, call_phase, call_wrote, call_read>>

\* The call's output transport reads the module global to decide that the bot
\* has stopped speaking.
TransportReadsStopSecs(c) ==
    /\ call_phase[c] = "running"
    /\ call_read' = [call_read EXCEPT ![c] = @ \cup {BOT_VAD_STOP_SECS}]
    /\ UNCHANGED <<notCalls, BOT_VAD_STOP_SECS, call_phase, call_data, call_wrote,
                   call_fed>>

\* run_bot returns.
CallEnds(c) ==
    /\ call_phase[c] = "running"
    /\ call_phase' = [call_phase EXCEPT ![c] = "ended"]
    /\ UNCHANGED <<notCalls, BOT_VAD_STOP_SECS, call_data, call_wrote, call_fed,
                   call_read>>

CallsInit ==
    /\ Init
    /\ greeting_message = <<>> /\ ~enable_interruptions /\ ~enable_smart_turn
    /\ stt_provider = "ai4bharat"

CallsNext ==
    \/ \E c \in Calls : BotSetup(c)
    \/ \E c \in Calls : OnAudioData(c)
    \/ \E c \in Calls : TransportReadsStopSecs(c)
    \/ \E c \in Calls : CallEnds(c)

CallsSpec == CallsInit /\ [][CallsNext]_vars

\* --------------------------------------- _check_stopping_state and the clock
\* 25 ms pass.
ClockTick ==
    /\ clock < MaxClock
    /\ clock' = clock + 1
    /\ UNCHANGED <<notStop, seen_vad_state, seen_start_time, seen_triggered,
                   stopping_since, fired, rearmed, fired_age>>

\* The detector, fed by the aggregator, enters STOPPING.
VadEntersStopping ==
    /\ seen_vad_state = "SPEAKING"
    /\ seen_vad_state' = "STOPPING"
    /\ stopping_since' = clock
    /\ fired' = 0
    /\ rearmed' = FALSE
    /\ UNCHANGED <<notStop, clock, seen_start_time, seen_triggered, fired_age>>

\* The detector leaves STOPPING, or leaves QUIET for SPEAKING.
VadLeaves ==
    /\ \E to \in {"QUIET", "SPEAKING"} :
         /\ to # seen_vad_state
         /\ seen_vad_state = "QUIET" => to = "SPEAKING"
         /\ seen_vad_state' = to
    /\ stopping_since' = -1
    /\ UNCHANGED <<notStop, clock, seen_start_time, seen_triggered, fired, rearmed,
                   fired_age>>

\* run_stt calls _check_stopping_state for an audio frame.
StoppingCheck ==
    LET c == CheckStoppingState(seen_vad_state, seen_start_time # -1, seen_triggered,
                                clock - seen_start_time >= StoppingDuration)
    IN /\ seen_start_time' = IF ~c.start_time THEN -1
                              ELSE IF seen_start_time = -1 THEN clock
                              ELSE seen_start_time
       /\ seen_triggered' = c.triggered
       /\ fired' = IF c.ret /\ fired < 2 THEN fired + 1 ELSE fired
       /\ fired_age' = IF c.ret THEN clock - stopping_since ELSE fired_age
       /\ UNCHANGED <<notStop, clock, seen_vad_state, stopping_since, rearmed>>

\* process_frame handles a UserStartedSpeakingFrame or UserStoppedSpeakingFrame:
\* both reset _stopping_start_time and _stopping_triggered.
SpeakingFrameProcessed ==
    /\ seen_start_time' = -1
    /\ seen_triggered' = FALSE
    /\ rearmed' = (rearmed \/ seen_vad_state = "STOPPING")
    /\ UNCHANGED <<notStop, clock, seen_vad_state, stopping_since, fired, fired_age>>

StopInit == CallsInit

StopNext ==
    \/ ClockTick
    \/ VadEntersStopping
    \/ VadLeaves
    \/ StoppingCheck
    \/ SpeakingFrameProcessed

StopSpec == StopInit /\ [][StopNext]_vars

\* -------------------------------------------- run_stt across its suspension
\* The text a request returns for the audio of a turn.
TurnWord(n) == IF n = 1 THEN "1" ELSE IF n = 2 THEN "2" ELSE "3"

\* process_frame on UserStartedSpeakingFrame.
SttUserStarted ==
    /\ ~stt_is_speaking /\ stt_turn < MaxSttTurns
    /\ stt_turn' = stt_turn + 1
    /\ stt_is_speaking' = TRUE
    /\ stt_text_chunks' = <<>>
    /\ UNCHANGED <<notTurn, stt_request, stt_requests, stt_finals>>

\* run_stt up to 'await self._transcribe_buffer()': the check has returned
\* true (the detector is in STOPPING, within a turn) and the request is sent.
SttRequest ==
    /\ stt_is_speaking /\ stt_request = 0 /\ stt_requests < MaxSttRequests
    /\ stt_request' = stt_turn
    /\ stt_requests' = stt_requests + 1
    /\ UNCHANGED <<notTurn, stt_turn, stt_is_speaking, stt_text_chunks, stt_finals>>

\* run_stt from the await on: the text, if any, is appended to _text_chunks.
SttResponse ==
    /\ stt_request # 0
    /\ \E text \in {<<>>, <<TurnWord(stt_request)>>} :
         stt_text_chunks' = IF text # <<>> THEN Append(stt_text_chunks, text)
                            ELSE stt_text_chunks
    /\ stt_request' = 0
    /\ UNCHANGED <<notTurn, stt_turn, stt_is_speaking, stt_requests, stt_finals>>

\* process_frame on UserStoppedSpeakingFrame: the final transcript of the
\* accumulated chunks is pushed, the chunks are cleared.
SttUserStopped ==
    /\ stt_is_speaking
    /\ stt_is_speaking' = FALSE
    /\ stt_finals' = stt_finals \o
           [i \in 1..Len(FinalTexts(IndicStoppedOut(stt_text_chunks))) |->
               [turn |-> stt_turn, text |-> FinalTexts(IndicStoppedOut(stt_text_chunks))[i]]]
    /\ stt_text_chunks' = <<>>
    /\ UNCHANGED <<notTurn, stt_turn, stt_request, stt_requests>>

TurnInit == CallsInit

TurnNext ==
    \/ SttUserStarted
    \/ SttRequest
    \/ SttResponse
    \/ SttUserStopped

TurnSpec == TurnInit /\ [][TurnNext]_vars

\* ------------------------------------------- KenpathLLM._process_context
\* Fault variant: the task is left as it is.
HoldTaskLeftRunning(task) == task

\* 'if hold_message_task and not hold_message_task.done(): cancel(); await':
\* the task afterwards.
HoldTaskCancelled(task) == IF task \in {"sleeping", "pushing"} THEN "cancelled" ELSE task

\* _get_hold_message: the index after the message has been taken.
NextHoldIndex(i) == (i + 1) % HoldMessages

\* _process_context is called: without a user message it returns at once,
\* otherwise the hold task is created and the request is streamed.
ProcessContext ==
    /\ llm_pc \in {"idle", "returned", "raised"} /\ llm_calls < MaxLlmCalls
    /\ llm_calls' = llm_calls + 1
    /\ \E user_message \in BOOLEAN :
         /\ llm_pc' = IF user_message THEN "streaming" ELSE "returned"
         /\ hold_message_task' = IF user_message THEN "sleeping" ELSE "none"
    /\ first_chunk' = TRUE
    /\ chunk_count' = 0
    /\ hold_queued' = 0
    /\ chunks_at_timeout' = -1
    /\ UNCHANGED <<notHold, hold_message_index>>

\* asyncio.sleep(self.response_timeout) returns in the hold task, which takes
\* the next hold message.
HoldTimeout ==
    /\ hold_message_task = "sleeping"
    /\ hold_message_task' = "pushing"
    /\ hold_message_index' = NextHoldIndex(hold_message_index)
    /\ chunks_at_timeout' = chunk_count
    /\ UNCHANGED <<notHold, llm_pc, llm_calls, first_chunk, chunk_count, hold_queued>>

\* push_frame(TTSSpeakFrame(hold_msg)) returns in the hold task.
HoldPushed ==
    /\ hold_message_task = "pushing"
    /\ hold_message_task' = "done"
    /\ hold_queued' = hold_queued + 1
    /\ UNCHANGED <<notHold, llm_pc, llm_calls, hold_message_index, first_chunk,
                   chunk_count, chunks_at_timeout>>

\* A chunk of the answer: the first one cancels the hold task if it is not
\* done (a task cancelled inside push_frame may or may not have queued its
\* frame); the chunk is pushed.
LlmChunk ==
    /\ llm_pc = "streaming" /\ chunk_count < MaxLlmChunks
    /\ hold_message_task' = IF first_chunk THEN HoldTaskCancelled(hold_message_task)
                             ELSE hold_message_task
    /\ \E got_through \in BOOLEAN :
         hold_queued' = IF first_chunk /\ hold_message_task = "pushing" /\ got_through
                           /\ HoldTaskCancelled(hold_message_task) = "cancelled"
                        THEN hold_queued + 1 ELSE hold_queued
    /\ first_chunk' = FALSE
    /\ chunk_count' = chunk_count + 1
    /\ UNCHANGED <<notHold, llm_pc, llm_calls, hold_message_index, chunks_at_timeout>>

\* The stream ends or raises: the except clause and the finally clause cancel
\* the hold task if it is not done.
LlmStreamEnds ==
    /\ llm_pc = "streaming"
    /\ \E raised \in BOOLEAN : llm_pc' = IF raised THEN "raised" ELSE "returned"
    /\ hold_message_task' = HoldTaskCancelled(hold_message_task)
    /\ \E got_through \in BOOLEAN :
         hold_queued' = IF hold_message_task = "pushing" /\ got_through
                           /\ HoldTaskCancelled(hold_message_task) = "cancelled"
                        THEN hold_queued + 1 ELSE hold_queued
    /\ UNCHANGED <<notHold, llm_calls, hold_message_index, first_chunk, chunk_count,
                   chunks_at_timeout>>

HoldInit == CallsInit

HoldNext ==
    \/ ProcessContext
    \/ HoldTimeout
    \/ HoldPushed
    \/ LlmChunk
    \/ LlmStreamEnds

HoldSpec == HoldInit /\ [][HoldNext]_vars

\* ------------------------------------------ VoiceraMemoryRetrievalService
\* MEMORY_TAG, as one symbol of a content.
MEMORY_TAG == "PERSISTENT_MEMORY:"

\* content.startswith(MEMORY_TAG)
StartsWithTag(content) == Len(content) >= 1 /\ content[1] = MEMORY_TAG

\* Fault variant: the role is not tested.
StripAnyRole(messages) ==
    SelectSeq(messages, LAMBDA m : ~StartsWithTag(m.content))

\* _strip_previous_memory
RECURSIVE strip_previous_memory(_)
strip_previous_memory(messages) ==
    IF messages = <<>> THEN <<>>
    ELSE IF Head(messages).role = "system" /\ StartsWithTag(Head(messages).content)
         THEN strip_previous_memory(Tail(messages))
         ELSE <<Head(messages)>> \o strip_previous_memory(Tail(messages))

\* _format_memory_block: the block for what the search returned.
FormatMemoryBlock(mem) == IF mem = "hits" THEN <<MEMORY_TAG, "m">> ELSE <<>>

\* process_frame: the stripped text of the latest user message that has one.
RECURSIVE LatestUser(_)
LatestUser(messages) ==
    IF messages = <<>> THEN <<>>
    ELSE LET m == messages[Len(messages)]
         IN IF m.role = "user" /\ Strip(m.content) # <<>> THEN Strip(m.content)
            ELSE LatestUser(SubSeq(messages, 1, Len(messages) - 1))

\* process_frame: the block inserted after a leading system message.
InsertMemory(new_messages, block) ==
    LET insert_at == IF new_messages # <<>> /\ new_messages[1].role = "system" THEN 1 ELSE 0
    IN SubSeq(new_messages, 1, insert_at)
         \o <<[role |-> "system", content |-> block]>>
         \o SubSeq(new_messages, insert_at + 1, Len(new_messages))

\* The messages a frame may carry after what bot.py puts first.
MessageKinds ==
    { [role |-> "system", content |-> <<MEMORY_TAG, "old">>],
      [role |-> "system", content |-> <<"boot">>],
      [role |-> "user", content |-> <<"q">>],
      [role |-> "user", content |-> <<MEMORY_TAG>>],
      [role |-> "user", content |-> <<" ">>],
      [role |-> "assistant", content |-> <<"a">>] }

\* The context of bot.py begins with the system prompt; a frame without any
\* system prompt is tried as well.
MessageLists ==
    LET prompt == [role |-> "system", content |-> <<"prompt">>]
        tagged(m) == m.role = "system" /\ StartsWithTag(m.content)
        lists == UNION { [1..n -> MessageKinds \cup {prompt}] : n \in 0..MaxMessages + 1 }
    IN { l \in lists :
           \/ l # <<>> /\ l[1] = prompt
           \/ \A i \in 1..Len(l) : l[i].role = "system" => tagged(l[i]) }

\* process_frame for an LLMMessagesFrame going downstream; the search returns
\* nothing, a result without text, or hits, or raises.
ProcessMessagesFrame ==
    \E messages \in MessageLists, mem \in {"none", "empty", "hits", "raises"} :
        LET latest_user == LatestUser(messages)
            searched == latest_user # <<>> /\ mem_last_query # latest_user
            block == FormatMemoryBlock(mem)
            injects == searched /\ mem \in {"empty", "hits"} /\ block # <<>>
        IN /\ mem_messages' = messages
           /\ mem_last_query' = IF searched THEN latest_user ELSE mem_last_query
           /\ mem_injected' = injects
           /\ mem_forwarded' = IF injects
                                THEN InsertMemory(strip_previous_memory(messages), block)
                                ELSE messages
           /\ UNCHANGED notMem

MemInit == CallsInit

MemNext == ProcessMessagesFrame

MemSpec == MemInit /\ [][MemNext]_vars

\* ------------------------------------- websocket_endpoint: fetch and retry
\* The loop's step after a failed attempt that needs no sleep, or after a sleep.
NextAttempt ==
    /\ attempt' = attempt + 1
    /\ fetch_pc' = IF attempt + 1 < FetchAttempts THEN "fetch" ELSE "resolve"

\* One pass of the loop up to its sleep: fetch_meeting_internal is awaited.
FetchMeeting ==
    /\ fetch_pc = "fetch"
    /\ fetch_calls' = fetch_calls + 1
    /\ \E m \in Meetings :
         /\ meeting' = m
         /\ IF m.found THEN fetch_pc' = "resolve" /\ attempt' = attempt
            ELSE IF SleepsAfter(attempt) THEN fetch_pc' = "sleep" /\ attempt' = attempt
            ELSE NextAttempt
    /\ UNCHANGED <<notFetch, sleeps, user_phone, bot_started>>

\* asyncio.sleep(0.5) returns.
FetchSleepEnds ==
    /\ fetch_pc = "sleep"
    /\ sleeps' = sleeps + 1
    /\ NextAttempt
    /\ UNCHANGED <<notFetch, fetch_calls, meeting, user_phone, bot_started>>

\* After the loop: user_phone is resolved and bot() is called.
StartBot ==
    /\ fetch_pc = "resolve"
    /\ fetch_pc' = "bot"
    /\ user_phone' = NormalizePhone(MeetingPhone(meeting))
    /\ bot_started' = TRUE
    /\ UNCHANGED <<notFetch, attempt, fetch_calls, sleeps, meeting>>

FetchInit == CallsInit

FetchNext ==
    \/ FetchMeeting
    \/ FetchSleepEnds
    \/ StartBot

FetchSpec == FetchInit /\ [][FetchNext]_vars

\* ------------------------------------------------ bot(): the finally block
\* The call_data a call may end with.
FinalCallData ==
    { [d EXCEPT !.transcript_lines = ls] :
        d \in {NewCallData, on_audio_data(NewCallData, "a1", "8000", "1"),
               on_audio_data(on_audio_data(NewCallData, "a1", "8000", "1"), "a2", "8000", "1")},
        ls \in {<<>>, <<"user: hi">>, <<"user: hi", "assistant: hello">>} }

\* agent_config's enable_memory: absent, a bool or a string.
EnableMemoryValues ==
    { [kind |-> "absent", value |-> ""], [kind |-> "bool", value |-> "True"],
      [kind |-> "bool", value |-> "False"], [kind |-> "str", value |-> "Yes"],
      [kind |-> "str", value |-> "no"] }

\* str.lower on the strings above.
Lower(s) == IF s = "Yes" THEN "yes" ELSE s

\* enable_memory as the finally block reads it.
MemoryEnabled(em) ==
    IF em.kind = "absent" THEN TRUE
    ELSE IF em.kind = "str" THEN Lower(em.value) \in {"true", "1", "yes"}
    ELSE em.value = "True"

\* The guard of save_recording_from_chunks.
HasRecording(data) ==
    /\ data.audio_chunks # <<>>
    /\ data.audio_sample_rate # "None"
    /\ data.audio_num_channels # "None"

\* The guard of save_transcript_from_lines.
HasTranscript(data) == data.transcript_lines # <<>>

\* The guard of memory_ingest.
IngestDue(phone, em, data) ==
    phone # <<>> /\ MemoryEnabled(em) /\ data.transcript_lines # <<>>

\* The statement after a persistence step of the finally block.
FollowingStep(step) ==
    CASE step = "recording" -> "transcript"
      [] step = "transcript" -> "ingest"
      [] step = "ingest" -> "submit"

\* Fault variant: an exception of a persistence step leaves the finally block.
AfterStepPropagates(step, ok) == IF ok THEN FollowingStep(step) ELSE "raised"

\* 'except Exception' around each of the three steps: the block goes on.
AfterStep(step, ok) == FollowingStep(step)

\* One guarded persistence step: skipped, or called and possibly raising.
PersistStep(step, due, name) ==
    /\ IF due
         THEN \E ok \in BOOLEAN :
                /\ save_steps' = Append(save_steps, name)
                /\ save_failed' = IF ok THEN save_failed ELSE save_failed \cup {name}
                /\ save_pc' = AfterStep(step, ok)
         ELSE /\ save_pc' = FollowingStep(step)
              /\ UNCHANGED <<save_steps, save_failed>>
    /\ UNCHANGED <<notSave, run_bot_outcome, final_data, bot_user_phone, enable_memory>>

\* run_bot returns or raises; the finally block is entered.
RunBotEnds ==
    /\ save_pc = "run_bot"
    /\ save_pc' = "recording"
    /\ run_bot_outcome' \in {"returned", "raised"}
    /\ final_data' \in FinalCallData
    /\ bot_user_phone' \in {<<>>, <<"+", "9", "1", "7">>}
    /\ enable_memory' \in EnableMemoryValues
    /\ UNCHANGED <<notSave, save_steps, save_failed>>

SaveRecording ==
    /\ save_pc = "recording"
    /\ PersistStep("recording", HasRecording(final_data), "save_recording_from_chunks")

SaveTranscript ==
    /\ save_pc = "transcript"
    /\ PersistStep("transcript", HasTranscript(final_data), "save_transcript_from_lines")

MemoryIngest ==
    /\ save_pc = "ingest"
    /\ PersistStep("ingest", IngestDue(bot_user_phone, enable_memory, final_data),
                   "memory_ingest")

\* submit_call_recording is awaited outside any try; after it the exception of
\* run_bot, if any, leaves bot().
SubmitCallRecording ==
    /\ save_pc = "submit"
    /\ save_steps' = Append(save_steps, "submit_call_recording")
    /\ \E ok \in BOOLEAN :
         /\ save_failed' = IF ok THEN save_failed
                           ELSE save_failed \cup {"submit_call_recording"}
         /\ save_pc' = IF ok /\ run_bot_outcome = "returned" THEN "done" ELSE "raised"
    /\ UNCHANGED <<notSave, run_bot_outcome, final_data, bot_user_phone, enable_memory>>

SaveInit == CallsInit

SaveNext ==
    \/ RunBotEnds
    \/ SaveRecording
    \/ SaveTranscript
    \/ MemoryIngest
    \/ SubmitCallRecording

SaveSpec == SaveInit /\ [][SaveNext]_vars

\* ---------------------------------------------- BhashiniTTSService.run_tts
\* The body of the response is text over these symbols: "A", "D" and "E" are
\* the JSON objects holding audio, done and error, the fourth ends a line.
TtsSymbols == {"A", "D", "E", "\n"}

\* What iter_any may deliver at once: nothing, or one or two symbols.
TtsChunks ==
    {<<>>} \cup {<<a>> : a \in TtsSymbols} \cup {<<a, b>> : a, b \in TtsSymbols}

\* json.loads of a line: the object's key, or invalid for any other text.
JsonLoads(line) ==
    IF line = <<"A">> THEN "audio"
    ELSE IF line = <<"D">> THEN "done"
    ELSE IF line = <<"E">> THEN "error"
    ELSE "invalid"

\* The place of the first line end of a buffer that holds one.
FirstNewline(buffer) ==
    CHOOSE i \in 1..Len(buffer) :
        buffer[i] = "\n" /\ \A j \in 1..(i - 1) : buffer[j] # "\n"

\* 'while "\n" in buffer': the frames yielded, the buffer left, whether the
\* generator returned and whether the loop was left at a line marked done.
RECURSIVE WhileNewline(_)
WhileNewline(buffer) ==
    IF \A i \in 1..Len(buffer) : buffer[i] # "\n"
    THEN [frames |-> <<>>, buffer |-> buffer, returned |-> FALSE, done |-> FALSE]
    ELSE LET i == FirstNewline(buffer)
             line == SubSeq(buffer, 1, i - 1)
             rest == SubSeq(buffer, i + 1, Len(buffer))
             data == JsonLoads(line)
         IN IF line = <<>> \/ data = "invalid" THEN WhileNewline(rest)
            ELSE IF data = "error"
                 THEN [frames |-> <<"ErrorFrame">>, buffer |-> rest,
                       returned |-> TRUE, done |-> FALSE]
            ELSE IF data = "done"
                 THEN [frames |-> <<>>, buffer |-> rest, returned |-> FALSE, done |-> TRUE]
            ELSE LET r == WhileNewline(rest)
                 IN [r EXCEPT !.frames = <<"TTSAudioRawFrame">> \o @]

\* run_tts is called: blank text yields nothing; else the session is opened
\* and TTSStartedFrame yielded, or the opening raises.
RunTts ==
    /\ tts_pc = "idle"
    /\ \E text \in {<<>>, <<" ">>, <<"h", "i">>} :
         IF Strip(text) = <<>>
         THEN tts_pc' = "ended" /\ tts_frames' = tts_frames
         ELSE \E ok \in BOOLEAN :
                IF ok THEN /\ tts_pc' = "posted"
                           /\ tts_frames' = Append(tts_frames, "TTSStartedFrame")
                ELSE /\ tts_pc' = "ended"
                     /\ tts_frames' = Append(tts_frames, "ErrorFrame")
    /\ UNCHANGED <<notTts, tts_buffer, tts_chunks, tts_done_read>>

\* session.post answers: status 200, another status, or an exception.
TtsResponse ==
    /\ tts_pc = "posted"
    /\ \E answer \in {"200", "500", "ClientError", "TimeoutError"} :
         IF answer = "200"
         THEN tts_pc' = "streaming" /\ tts_frames' = tts_frames
         ELSE tts_pc' = "ended" /\ tts_frames' = Append(tts_frames, "ErrorFrame")
    /\ UNCHANGED <<notTts, tts_buffer, tts_chunks, tts_done_read>>

\* One pass of 'async for chunk in response.content.iter_any()'.
TtsChunk ==
    /\ tts_pc = "streaming"
    /\ tts_chunks < MaxTtsChunks
    /\ tts_chunks' = tts_chunks + 1
    /\ \E chunk \in TtsChunks :
         IF chunk = <<>>
         THEN UNCHANGED <<tts_pc, tts_frames, tts_buffer, tts_done_read>>
         ELSE LET r == WhileNewline(tts_buffer \o chunk)
              IN /\ tts_frames' = tts_frames \o r.frames
                 /\ tts_buffer' = r.buffer
                 /\ tts_done_read' = (tts_done_read \/ r.done)
                 /\ tts_pc' = IF r.returned THEN "ended" ELSE "streaming"
    /\ UNCHANGED notTts

\* Reading the body raises.
TtsStreamFails ==
    /\ tts_pc = "streaming"
    /\ tts_pc' = "ended"
    /\ tts_frames' = Append(tts_frames, "ErrorFrame")
    /\ UNCHANGED <<notTts, tts_buffer, tts_chunks, tts_done_read>>

\* The body is exhausted: TTSStoppedFrame is yielded.
TtsStreamEnds ==
    /\ tts_pc = "streaming"
    /\ tts_pc' = "ended"
    /\ tts_frames' = Append(tts_frames, "TTSStoppedFrame")
    /\ UNCHANGED <<notTts, tts_buffer, tts_chunks, tts_done_read>>

TtsInit == CallsInit

TtsNext ==
    \/ RunTts
    \/ TtsResponse
    \/ TtsChunk
    \/ TtsStreamFails
    \/ TtsStreamEnds

TtsSpec == TtsInit /\ [][TtsNext]_vars

\* ------------------------------------------------------------------- claims
\* Steps, recognised by what they change.
VadStartStep == vad_starts' = vad_starts + 1 /\ session' = session
VadStopStep == vad_state = "STOPPING" /\ vad_state' = "QUIET" /\ session' = session
BotSpeechStopStep ==
    bot_speaking /\ ~bot_speaking' /\ cancels' = cancels /\ session' = session
ClassifierStep ==
    /\ classifier_inflight' # classifier_inflight
    /\ classifier_inflight' \subseteq classifier_inflight
    /\ session' = session /\ vad_starts' = vad_starts
DeliveredId == CHOOSE id \in classifier_inflight : id \notin classifier_inflight'

\* C1, as stated: in every session each span that saw VAD_START and VAD_STOP
\* gets its USER_TURN_COMPLETE; when the call is over none is left without.
C1_Original == session = "closed" => ~undecided

\* C1, amended: while the call lasts every opened span has exactly one
\* USER_TURN_COMPLETE once it is back in IDLE and none before, never a second
\* decision for a span, and an evaluation always ends: in a decision, in
\* resumed speech (the span goes on) or with the call.
C1_ExactlyOnePerSpan ==
    /\ [](decisions <= 1)
    /\ [](session # "closed" =>
            /\ turnState \in {"IDLE", "MUTED", "USER_TURN_COMPLETE"} => emitted = spans_opened
            /\ turnState \in {"USER_SPEAKING", "EVALUATING_END"} => emitted + 1 = spans_opened)
    /\ (turnState = "EVALUATING_END") ~>
            (turnState \in {"USER_TURN_COMPLETE", "USER_SPEAKING"} \/ session = "closed")

\* Two spans, each with its one USER_TURN_COMPLETE.
C1_Witness == emitted = 2 /\ spans_opened = 2 /\ turnState = "IDLE" /\ session = "connected"

\* C2: a turn decided by the Timeout Guard is decided exactly when the
\* configured timeout has elapsed; when the armed timer ends with no classifier
\* result, no VAD signal, no silence decision and no teardown in that step, it
\* ends in USER_TURN_COMPLETE; an armed timer never stays armed forever.
C2_TimeoutGuard ==
    /\ [](decidedBy = "timeout" => timer_elapsed = UserTurnStopTimeout)
    /\ [][(/\ timer_armed /\ ~timer_armed'
           /\ ~VadStartStep /\ ~ClassifierStep
           /\ session' = session /\ decidedBy' # "silence"
           /\ decidedBy' # "classifier")
          => (/\ timer_elapsed = UserTurnStopTimeout
              /\ turnState' = "USER_TURN_COMPLETE"
              /\ decidedBy' = "timeout"
              /\ emitted' = emitted + 1)]_vars
    /\ timer_armed ~> ~timer_armed

\* The second turn is decided by the timer while the classifier has answered
\* neither evaluation.
C2_Witness ==
    /\ enable_smart_turn /\ classifier_inflight = {1, 2}
    /\ emitted = 2 /\ decidedBy = "timeout" /\ turnState = "USER_TURN_COMPLETE"

\* C3: a classifier result for an evaluation that is over changes neither the
\* TurnState nor the PendingTurn, emits nothing and writes nothing to the sink.
C3_StaleResultIgnored ==
    [][(ClassifierStep /\ StaleId(DeliveredId))
       => (/\ turnState' = turnState
           /\ pendingTurn' = pendingTurn
           /\ timer_armed' = timer_armed
           /\ emitted' = emitted
           /\ decisions' = decisions
           /\ transcript_lines' = transcript_lines)]_vars

\* The result of an evaluation that the timer had decided has arrived and has
\* not been consumed.
C3_Witness ==
    /\ classifier_await # 0 /\ classifier_await \notin classifier_inflight
    /\ emitted > 0 /\ session = "connected"

\* C4: while the queued greeting has not played out the state is MUTED and no
\* PendingTurn exists, whatever VAD_STARTs arrive, and the filter lets no
\* UserStartedSpeakingFrame through.
C4_MutedVadStartIgnored ==
    GreetingWindow =>
        /\ turnState = "MUTED"
        /\ ~pendingTurn.open
        /\ spans_opened = 0
        /\ "UserStartedSpeakingFrame" \notin filter_window_out

\* A VAD_START arrived while the greeting was still being played.
C4_Witness == GreetingWindow /\ window_starts # {} /\ bot_speaking

\* C5, as stated: the gate is active from the start of the session exactly
\* when the configured greeting is non-empty.
C5_Original ==
    (session = "connected" /\ ~bot_completed) => (muted <=> greeting_message # <<>>)

\* C5, amended: until the first BOT_SPEECH_STOP the gate is active exactly when
\* the greeting stripped of blanks is longer than one character; from the first
\* BOT_SPEECH_STOP on neither the gate nor the filter's flag is active.
C5_MuteGateActivation ==
    /\ ~bot_completed => (muted <=> Len(Strip(greeting_message)) > 1)
    /\ bot_completed => (~muted /\ ~greeting_in_progress)

\* The gate was active and the greeting's BOT_SPEECH_STOP opened it.
C5_Witness == bot_completed /\ ~muted /\ Len(Strip(greeting_message)) > 1 /\ turnState = "IDLE"

\* C6: a BOT_SPEECH_STOP after the gate has opened leaves the gate, the
\* filter's flag, the TurnState and the PendingTurn as they are, and neither
\* the gate nor the flag is ever active again.
C6_DeactivationIdempotent ==
    /\ [][(BotSpeechStopStep /\ ~muted /\ ~greeting_in_progress)
          => (/\ muted' = muted
              /\ greeting_in_progress' = greeting_in_progress
              /\ turnState' = turnState
              /\ pendingTurn' = pendingTurn)]_vars
    /\ [][~muted => ~muted']_vars
    /\ [][(session # "init" /\ ~greeting_in_progress) => ~greeting_in_progress']_vars

\* The greeting and then an answer have both been played to the end.
C6_Witness ==
    /\ GreetingQueued(greeting_message) /\ bot_completed
    /\ transcript_lines # <<>> /\ bot_queue = 0 /\ ~bot_speaking /\ cancels = {}
    /\ session = "connected"

FinalBeforeStop(log) ==
    \A i, j \in 1..Len(log) :
        (i < j /\ log[i] = "UserStoppedSpeakingFrame") => log[j] # "TranscriptionFrame"

\* C8, as stated: for every user turn the final transcript is pushed
\* downstream before the user-stopped-speaking notification.
C8_Original == FinalBeforeStop(downstream)

\* C8, amended: the IndicConformer service pushes the final transcript of the
\* accumulated chunks and then forwards the notification; the Bhashini service
\* forwards the notification alone, its final transcript follows later.
C8_FinalBeforeStopped ==
    /\ [](stt_provider = "ai4bharat" => FinalBeforeStop(downstream))
    /\ [][(VadStopStep /\ stt_provider = "ai4bharat")
          => downstream' = downstream \o
                (IF text_chunks # <<>>
                 THEN <<"TranscriptionFrame", "UserStoppedSpeakingFrame">>
                 ELSE <<"UserStoppedSpeakingFrame">>)]_vars
    /\ [][(VadStopStep /\ stt_provider = "Bhashini")
          => downstream' = downstream \o <<"UserStoppedSpeakingFrame">>]_vars

\* The IndicConformer service has pushed a final transcript and then the
\* notification.
C8_Witness ==
    stt_provider = "ai4bharat"
    /\ downstream = <<"TranscriptionFrame", "UserStoppedSpeakingFrame">>

C10_NoInterruptWhenDisabled ==
    /\ [](~enable_interruptions => cancels = {})
    /\ [][(~enable_interruptions /\ bot_speaking /\ ~muted /\ VadStartStep)
          => (/\ cancels' = cancels
              /\ bot_speaking'
              /\ pendingTurn'.open
              /\ turnState' = "USER_SPEAKING")]_vars

\* A turn opened by a VAD_START that arrived while the bot was speaking.
C10_Witness ==
    /\ ~enable_interruptions /\ pendingTurn.open /\ talkover
    /\ bot_speaking

\* C11: while the Mute Gate is active no step cancels the bot's speech: a
\* VAD_START that meets the speaking bot leaves it speaking, whatever
\* enable_interruptions is, and the filter passes no interruption frame while
\* the greeting plays.
C11_NoCancelWhileMuted ==
    /\ [][muted => cancels' = cancels]_vars
    /\ [][(muted /\ bot_speaking /\ VadStartStep) => bot_speaking']_vars
    /\ [](filter_window_out \cap {"InterruptionFrame", "StartInterruptionFrame"} = {})

\* Interruptions are enabled and a VAD_START has met the greeting being played;
\* the greeting goes on.
C11_Witness ==
    /\ muted /\ enable_interruptions /\ talkover /\ bot_speaking
    /\ window_starts # {} /\ cancels = {}

\* The flush of a decided turn to the sink.
FlushStep == turnState = "USER_TURN_COMPLETE" /\ turnState' = "IDLE" /\ session' = session

\* The text of the PendingTurn.
TurnText == Join(pendingTurn.fragments)

C13_BlankTurnDiscarded ==
    /\ [][(FlushStep /\ Strip(TurnText) = <<>>)
          => (/\ transcript_lines' = transcript_lines
              /\ bot_queue' = bot_queue
              /\ pendingTurn' = NoTurn)]_vars
    /\ [](\A i \in 1..Len(transcript_lines) : Strip(transcript_lines[i].content) # <<>>)

\* A turn whose only transcript was a blank has completed and has been flushed
\* without a line.
C13_Witness ==
    /\ stt_provider = "ai4bharat" /\ greeting_message = <<>> /\ session = "connected"
    /\ vad_starts = 1 /\ transcribed = 1 /\ emitted = 1 /\ turnState = "IDLE"
    /\ transcript_lines = <<>> /\ sink_failed = 0

C15_TeardownDiscards ==
    /\ [](session = "closed" =>
            /\ ~timer_armed
            /\ classifier_await = 0 /\ classifier_inflight = {}
            /\ pendingTurn = NoTurn
            /\ turnState \in {"IDLE", "MUTED"}
            /\ ~task_running)
    /\ [][session' = "closed"
          => (emitted' = emitted /\ transcript_lines' = transcript_lines)]_vars

\* The call ended while a span with transcribed text was open and undecided.
C15_Witness ==
    /\ session = "closed" /\ spans_opened = emitted + 1 /\ transcribed > 0
    /\ transcript_lines = <<>>

C17_Original == Cardinality({c \in Calls : call_wrote[c] # 0}) <= 1

\* C17, amended: the only state two calls share is the library's module global
\* BOT_VAD_STOP_SECS, which every call overwrites with the same value of the
\* environment, so that a call never reads a value other than the one it wrote
\* itself; a call's call_data holds exactly the chunks delivered to that call,
\* in order, whatever the other call does in between.
C17_CallsIndependent ==
    \A c \in Calls :
        /\ call_wrote[c] \in {0, EnvBotVadStopSecs}
        /\ call_read[c] \subseteq {call_wrote[c]}
        /\ call_phase[c] # "new" => BOT_VAD_STOP_SECS = call_wrote[c]
        /\ call_data[c].audio_chunks = [i \in 1..call_fed[c] |-> <<c, i>>]
        /\ call_data[c].audio_sample_rate = IF call_fed[c] > 0 THEN "8000" ELSE "None"
        /\ call_data[c].audio_num_channels = IF call_fed[c] > 0 THEN "1" ELSE "None"
        /\ call_data[c].transcript_lines = <<>>

\* Both calls have written the global, read it and recorded audio, and one of
\* them has ended while the other goes on.
C17_Witness ==
    /\ call_phase["A"] = "running" /\ call_phase["B"] = "ended"
    /\ \A c \in Calls : call_wrote[c] # 0 /\ call_read[c] # {} /\ call_fed[c] > 0

\* C18: the Timeout Guard's timer is armed exactly in EVALUATING_END; whenever
\* it is armed it starts from zero; it fires only when armed, in
\* EVALUATING_END, and what it counted is cleared before the next turn.
C18_TimerArmedIffEvaluating ==
    /\ [](timer_armed <=> turnState = "EVALUATING_END")
    /\ [][(~timer_armed /\ timer_armed') => timer_elapsed' = 0]_vars
    /\ [][(decidedBy # "timeout" /\ decidedBy' = "timeout")
          => (timer_armed /\ turnState = "EVALUATING_END" /\ ~timer_armed')]_vars
    /\ [](turnState \in {"IDLE", "MUTED", "USER_SPEAKING"} => timer_elapsed = 0)

\* The timer decided the first turn and is armed again, running, in the
\* evaluation of the second.
C18_Witness ==
    /\ timer_armed /\ turnState = "EVALUATING_END"
    /\ spans_opened = 2 /\ evals = 2 /\ emitted = 1 /\ timer_elapsed > 0
    /\ enable_smart_turn /\ classifier_inflight = {1, 2}

\* The edges of the TurnState.
Edges ==
    { <<"IDLE", "USER_SPEAKING">>, <<"USER_SPEAKING", "EVALUATING_END">>,
      <<"EVALUATING_END", "USER_TURN_COMPLETE">>, <<"EVALUATING_END", "USER_SPEAKING">>,
      <<"USER_TURN_COMPLETE", "IDLE">>, <<"MUTED", "IDLE">> }
    \cup { <<s, "MUTED">> : s \in {"IDLE", "USER_SPEAKING", "EVALUATING_END",
                                   "USER_TURN_COMPLETE"} }

\* C19: the TurnState is always one of the five states; every step that
\* changes it follows an edge, or is the teardown of the call; the state is
\* MUTED exactly while the Mute Gate is active.
C19_OnlyDefinedEdges ==
    /\ [](turnState \in {"IDLE", "MUTED", "USER_SPEAKING", "EVALUATING_END",
                         "USER_TURN_COMPLETE"})
    /\ [][turnState' # turnState
          => (<<turnState, turnState'>> \in Edges \/ session' = "closed")]_vars
    /\ [](turnState = "MUTED" <=> muted)

\* After the greeting a turn went through a pause, resumed speech and a
\* decision, and was flushed: every edge but those into MUTED has been taken.
C19_Witness ==
    /\ GreetingQueued(greeting_message) /\ bot_completed /\ window_starts = {}
    /\ vad_starts = 2 /\ spans_opened = 1 /\ emitted = 1
    /\ turnState = "IDLE" /\ session = "connected"

C26_MuteIffGreetingQueued ==
    /\ MuteStrategyInstalled(greeting_message) <=> GreetingQueued(greeting_message)
    /\ (session = "connected" /\ muted) => (bot_queue = 1 \/ bot_speaking)
    /\ (~bot_completed /\ GreetingQueued(greeting_message)
        /\ (bot_queue = 1 \/ bot_speaking)) => muted
    /\ ~GreetingQueued(greeting_message) => ~muted

\* The queued greeting is being played to a muted session.
C26_Witness ==
    /\ session = "connected" /\ muted /\ bot_speaking /\ bot_queue = 0
    /\ GreetingQueued(greeting_message) /\ window_starts = {}

\* A call of _check_stopping_state that returns true.
FireStep == ~seen_triggered /\ seen_triggered'

\* C28, as stated: whenever the check returned true, the detector's current
\* episode of STOPPING had lasted the stopping duration, and the check returns
\* true at most once in an episode in which no frame re-armed the trigger.
C28_Original ==
    /\ fired_age = -1 \/ fired_age >= StoppingDuration
    /\ ~rearmed => fired <= 1

\* C28, amended: in one episode of STOPPING with no user started/stopped frame
\* processed the check returns true at most once; it returns true only when the
\* stopping duration has passed since the first call that saw STOPPING after
\* the last reset, which is also the age of the episode if that call saw this
\* episode; the trigger is re-armed only by a call that sees the detector
\* outside STOPPING or by a user started/stopped frame.
C28_StoppingTrigger ==
    /\ [](~rearmed => fired <= 1)
    /\ [][FireStep
          => (/\ seen_vad_state = "STOPPING"
              /\ seen_start_time # -1
              /\ clock - seen_start_time >= StoppingDuration
              /\ (seen_start_time >= stopping_since
                    => clock - stopping_since >= StoppingDuration))]_vars
    /\ [][(seen_triggered /\ ~seen_triggered')
          => (seen_vad_state # "STOPPING" \/ (rearmed' /\ seen_start_time' = -1))]_vars
    /\ [](seen_triggered => seen_start_time # -1)

\* The check has returned true once, in an episode that had lasted the stopping
\* duration, and has been called again since.
C28_Witness ==
    /\ seen_vad_state = "STOPPING" /\ seen_triggered /\ fired = 1 /\ ~rearmed
    /\ fired_age >= StoppingDuration /\ clock > stopping_since + fired_age

\* C27, as stated: every final transcript holds only text transcribed from the
\* audio of the turn it is pushed for, whatever run_stt's suspension is
\* interleaved with.
C27_Original ==
    \A i \in 1..Len(stt_finals) :
        \A j \in 1..Len(stt_finals[i].text) :
            stt_finals[i].text[j] \in {" ", TurnWord(stt_finals[i].turn)}

\* C23: a call of _process_context queues at most one hold message, and only
\* if no chunk had been handled when the timeout elapsed; a first chunk handled
\* while the hold task still sleeps cancels it and no hold message is queued by
\* that call; when the call has returned or raised, the hold task is done or
\* cancelled, or was never created.
C23_HoldMessage ==
    /\ [](hold_queued <= 1)
    /\ [](hold_queued = 1 => chunks_at_timeout = 0)
    /\ [][(llm_pc = "streaming" /\ first_chunk /\ ~first_chunk'
           /\ hold_message_task = "sleeping")
          => (hold_message_task' = "cancelled" /\ hold_queued' = 0)]_vars
    /\ []((hold_message_task = "cancelled" /\ chunks_at_timeout = -1) => hold_queued = 0)
    /\ [](llm_pc \in {"idle", "returned", "raised"}
            => hold_message_task \in {"none", "done", "cancelled"})
    /\ [](hold_message_task = "none" => hold_queued = 0)

\* The timeout elapsed before the first chunk: the hold message was queued,
\* the answer was streamed after it and the call has returned.
C23_Witness ==
    /\ llm_pc = "returned" /\ hold_message_task = "done" /\ hold_queued = 1
    /\ chunk_count = 2 /\ hold_message_index = 1

\* A system message that begins with the memory tag.
IsMemoryBlock(m) == m.role = "system" /\ StartsWithTag(m.content)

\* The position of the first system message of a list that is no memory
\* block, 0 if there is none.
FirstSystemPrompt(messages) ==
    LET at == { i \in 1..Len(messages) :
                  messages[i].role = "system" /\ ~IsMemoryBlock(messages[i]) }
    IN IF at = {} THEN 0 ELSE CHOOSE i \in at : \A j \in at : i <= j

C25_FetchRetry ==
    /\ [](fetch_calls <= FetchAttempts /\ sleeps <= FetchAttempts - 1)
    /\ [](fetch_pc \in {"sleep", "resolve", "bot"} => sleeps = fetch_calls - 1)
    /\ [](fetch_pc = "fetch" => sleeps = fetch_calls)
    /\ [][meeting.found => fetch_calls' = fetch_calls /\ sleeps' = sleeps]_vars
    /\ []((fetch_pc \in {"resolve", "bot"} /\ ~meeting.found) => fetch_calls = FetchAttempts)
    /\ [](fetch_pc = "bot" => bot_started)
    /\ []((fetch_pc = "bot" /\ ~meeting.found) => user_phone = <<>>)

\* Four attempts failed, three sleeps lay between them, and bot() has been
\* called without a user_phone.
C25_Witness ==
    /\ fetch_pc = "bot" /\ bot_started /\ ~meeting.found
    /\ fetch_calls = 4 /\ sleeps = 3 /\ user_phone = <<>>

\* The persistence calls made so far, as a set.
StepsMade == {save_steps[i] : i \in 1..Len(save_steps)}

\* C29: once bot() has left its finally block, whether run_bot returned or
\* raised, the recording save was attempted exactly when chunks, a sample rate
\* and a channel count were captured, the transcript save exactly when there
\* is a transcript line, no call was made twice, a step that raised did not
\* stop the later ones, and submit_call_recording was the last call made.
C29_PersistenceSteps ==
    save_pc \in {"done", "raised"} =>
        /\ run_bot_outcome \in {"returned", "raised"}
        /\ ("save_recording_from_chunks" \in StepsMade <=>
                (/\ Len(final_data.audio_chunks) > 0
                 /\ final_data.audio_sample_rate # "None"
                 /\ final_data.audio_num_channels # "None"))
        /\ ("save_transcript_from_lines" \in StepsMade <=>
                Len(final_data.transcript_lines) >= 1)
        /\ Cardinality(StepsMade) = Len(save_steps)
        /\ save_steps # <<>>
        /\ save_steps[Len(save_steps)] = "submit_call_recording"
        /\ \A i, j \in 1..Len(save_steps) :
             (save_steps[i] = "save_recording_from_chunks" /\ i # j) => i < j
        /\ \A i \in 1..Len(save_steps) :
             save_steps[i] = "memory_ingest" => i = Len(save_steps) - 1

\* run_bot raised, the recording save, the transcript save and the memory
\* ingest all raised, and submit_call_recording was still called, last.
C29_Witness ==
    /\ save_pc = "raised" /\ run_bot_outcome = "raised"
    /\ {"save_recording_from_chunks", "save_transcript_from_lines", "memory_ingest"}
           \subseteq save_failed
    /\ Len(save_steps) = 4 /\ save_steps[4] = "submit_call_recording"

\* How many frames of a kind a sequence of frames holds.
FrameCount(frames, kind) == Cardinality({i \in 1..Len(frames) : frames[i] = kind})

\* C30: a run_tts call that yielded TTSStartedFrame yielded it once and ended
\* with TTSStoppedFrame or ErrorFrame as its last frame, and no audio frame is
\* yielded once a line marked done has been read.
C30_Original ==
    /\ []((tts_pc = "ended" /\ FrameCount(tts_frames, "TTSStartedFrame") > 0) =>
            /\ FrameCount(tts_frames, "TTSStartedFrame") = 1
            /\ tts_frames[Len(tts_frames)] \in {"TTSStoppedFrame", "ErrorFrame"})
    /\ [][tts_done_read =>
            FrameCount(tts_frames', "TTSAudioRawFrame")
                = FrameCount(tts_frames, "TTSAudioRawFrame")]_vars

====
